---- MODULE Spec2Model ----
\* Visual and visual-line selection handling of the vim crate
\* (crates/vim/src/visual.rs): motion extension with boundary repair, and the
\* four commit operations delete, change, delete_line and change_line.
\*
\* A document is a sequence of lines, a line a sequence of characters, and a
\* character a triple <<row, index, width>> naming where it stood in the
\* initial document and how many column units (bytes) it occupies.  Points
\* are <<row, column>> pairs, both counted from 0 as in the source.
EXTENDS Integers, Sequences, FiniteSets, TLC

VARIABLES
    doc,               \* buffer contents
    selections,        \* the editor's selection set, ordered by start
    mode,              \* vim mode: Visual, VisualLine, Normal, Insert
    clip_at_line_ends, \* the display map's line-end clipping toggle
    op,                \* the commit operation that has run ("none" before)
    doc0,              \* buffer when the commit operation began
    sel0,              \* selection set when the commit operation began
    adjusted,          \* each selection of sel0 as its adjuster closure left it
    ranges,            \* the selection set the clipboard and the edit saw
    original_columns,  \* delete_line's id -> column side table
    clipboard,         \* what copy_selections_content wrote
    phases,            \* phases of the commit operation, in execution order
    events,            \* per-selection steps of the adjusting pass, in order
    anchors,           \* id -> the point where its selection was created
    motion_goal,       \* the goal move_point returned for each selection in
                       \* the last motion
    moved              \* the selections as the last motion's closure left
                       \* them, before overlapping ones were merged

vars == <<doc, selections, mode, clip_at_line_ends, op, doc0, sel0, adjusted,
          ranges, original_columns, clipboard, phases, events, anchors,
          motion_goal, moved>>

\* ---------------------------------------------------------------- bounds
MaxSel == 2
\* Largest column a side-table entry is drawn from in SpecFixup.
MaxColumn == 3

\* Line shapes (character widths) of the initial documents.
Shapes ==
    { << <<1, 1>> >>,
      << <<>> >>,
      << <<1, 1, 1>> >>,
      << <<1, 2>>, <<>>, <<1>> >>,
      << <<1, 1>>, <<1, 1>> >>,
      << <<2, 1>>, <<1>> >>,
      << <<1>>, <<>> >> }

MkDoc(shape) ==
    [r \in 1..Len(shape) |-> [i \in 1..Len(shape[r]) |-> <<r, i, shape[r][i]>>]]

Docs == { MkDoc(sh) : sh \in Shapes }

\* SelectionGoal values a motion may return; the closures only pass them on.
Goals == {"None", "Column"}

\* ------------------------------------------------------------ primitives
Min(S) == CHOOSE x \in S : \A y \in S : x <= y
Max(S) == CHOOSE x \in S : \A y \in S : x >= y

row(p) == p[1]
column(p) == p[2]

PointLT(a, b) == row(a) < row(b) \/ (row(a) = row(b) /\ column(a) < column(b))
PointLE(a, b) == a = b \/ PointLT(a, b)

saturating_sub(a, b) == IF a >= b THEN a - b ELSE 0

RECURSIVE SumW(_)
SumW(line) == IF line = <<>> THEN 0 ELSE line[1][3] + SumW(Tail(line))

\* Column just after the k-th character of a line.
CharEnd(line, k) == SumW(SubSeq(line, 1, k))

\* The columns of a line a point may stand on (character boundaries).
Boundaries(line) == { CharEnd(line, k) : k \in 0..Len(line) }

line_len(d, r) == SumW(d[r + 1])

max_point(d) == <<Len(d) - 1, line_len(d, Len(d) - 1)>>

ValidPoints(d) ==
    UNION { { <<r, c>> : c \in Boundaries(d[r + 1]) } : r \in 0..(Len(d) - 1) }

\* Clipping of the underlying text: the row is clamped to the document, the
\* column to the line, and a column inside a character snaps to the
\* character's start (Left) or end (Right).
text_clip_point(d, p, bias) ==
    IF row(p) > Len(d) - 1 THEN max_point(d)
    ELSE LET line == d[row(p) + 1]
             c == IF column(p) > SumW(line) THEN SumW(line) ELSE column(p)
         IN  IF c \in Boundaries(line) THEN <<row(p), c>>
             ELSE IF bias = "Left"
                  THEN <<row(p), Max({ b \in Boundaries(line) : b < c })>>
                  ELSE <<row(p), Min({ b \in Boundaries(line) : b > c })>>

clip_at_line_end(d, p) ==
    IF column(p) = line_len(d, row(p))
    THEN text_clip_point(d, <<row(p), saturating_sub(column(p), 1)>>, "Left")
    ELSE p

clip_point(d, flag, p, bias) ==
    LET clipped == text_clip_point(d, p, bias)
    IN  IF flag THEN clip_at_line_end(d, clipped) ELSE clipped

prev_line_boundary(d, p) == <<row(p), 0>>
next_line_boundary(d, p) == <<row(p), line_len(d, row(p))>>

\* ------------------------------------------------------------- Selection
head(s) == IF s.reversed THEN s.start ELSE s.end
tail(s) == IF s.reversed THEN s.end ELSE s.start

set_head(s, h, new_goal) ==
    IF PointLT(h, tail(s))
    THEN [s EXCEPT !.end = IF s.reversed THEN s.end ELSE s.start,
                   !.start = h, !.reversed = TRUE, !.goal = new_goal]
    ELSE [s EXCEPT !.start = IF s.reversed THEN s.end ELSE s.start,
                   !.end = h, !.reversed = FALSE, !.goal = new_goal]

collapse_to(s, point, new_goal) ==
    [s EXCEPT !.start = point, !.end = point, !.goal = new_goal,
              !.reversed = FALSE]

Cursor(id, p) == [id |-> id, start |-> p, end |-> p, reversed |-> FALSE,
                 goal |-> "None"]

\* Insertion sort of a selection list by start.
RECURSIVE InsertByStart(_, _)
InsertByStart(sorted, s) ==
    IF sorted = <<>> THEN <<s>>
    ELSE IF PointLT(s.start, Head(sorted).start) THEN <<s>> \o sorted
    ELSE <<Head(sorted)>> \o InsertByStart(Tail(sorted), s)

RECURSIVE SortByStart(_)
SortByStart(sels) ==
    IF sels = <<>> THEN <<>>
    ELSE InsertByStart(SortByStart(SubSeq(sels, 1, Len(sels) - 1)), sels[Len(sels)])

\* Merge of overlapping or touching neighbours of a sorted list.
RECURSIVE MergeSorted(_)
MergeSorted(sels) ==
    IF Len(sels) < 2 THEN sels
    ELSE LET a == sels[1]
             b == sels[2]
         IN  IF PointLE(b.start, a.end)
             THEN MergeSorted(<<[a EXCEPT !.end = IF PointLT(a.end, b.end)
                                                  THEN b.end ELSE a.end]>>
                              \o SubSeq(sels, 3, Len(sels)))
             ELSE <<a>> \o MergeSorted(Tail(sels))

\* MutableSelectionsCollection::select, which move_with ends with.
select(sels) == MergeSorted(SortByStart(sels))

\* ------------------------------------------------------------ buffer text
NL == <<0, 0, 0>>

\* Characters of a line lying wholly before / wholly after a column.
TakeCols(line, c) ==
    SubSeq(line, 1, Max({ k \in 0..Len(line) : CharEnd(line, k) <= c }))
DropCols(line, c) ==
    LET ks == { k \in 0..Len(line) : CharEnd(line, k) >= c }
    IN  IF ks = {} THEN <<>> ELSE SubSeq(line, Min(ks) + 1, Len(line))

\* Buffer contents of the exclusive range [s, e).
RECURSIVE text_for_range(_, _, _)
text_for_range(d, s, e) ==
    IF ~PointLT(s, e) THEN <<>>
    ELSE IF row(s) = row(e)
         THEN TakeCols(DropCols(d[row(s) + 1], column(s)),
                       column(e) - column(s))
         ELSE DropCols(d[row(s) + 1], column(s)) \o <<NL>>
              \o text_for_range(d, <<row(s) + 1, 0>>, e)

\* The buffer after replacing [s, e) by the empty string.
DeleteRange(d, s, e) ==
    IF ~PointLT(s, e) THEN d
    ELSE SubSeq(d, 1, row(s))
         \o << TakeCols(d[row(s) + 1], column(s))
                \o DropCols(d[row(e) + 1], column(e)) >>
         \o SubSeq(d, row(e) + 2, Len(d))

\* Where a point at or after e stands once [s, e) is gone.
MapPoint(p, s, e) ==
    IF ~PointLT(s, e) THEN p
    ELSE IF row(p) = row(e) THEN <<row(s), column(s) + column(p) - column(e)>>
    ELSE <<row(p) - (row(e) - row(s)), column(p)>>

RECURSIVE DeleteAll(_, _, _)
DeleteAll(d, rs, j) ==
    IF j = 0 THEN d
    ELSE DeleteAll(DeleteRange(d, rs[j].start, rs[j].end), rs, j - 1)

RECURSIVE MapBack(_, _, _)
MapBack(p, rs, j) ==
    IF j = 0 THEN p
    ELSE MapBack(MapPoint(p, rs[j].start, rs[j].end), rs, j - 1)

\* Editor::insert(""): every selection's range is removed in one edit and
\* each selection becomes an empty, forward selection where its range was.
insert_doc(d, rs) == DeleteAll(d, rs, Len(rs))
insert_selections(rs) ==
    [i \in 1..Len(rs) |->
        LET p == MapBack(rs[i].start, rs, i - 1)
        IN  [id |-> rs[i].id, start |-> p, end |-> p,
             reversed |-> FALSE, goal |-> rs[i].goal]]

copy_selections_content(d, rs, linewise) ==
    [i \in 1..Len(rs) |->
        [text |-> text_for_range(d, rs[i].start, rs[i].end),
         is_entire_line |-> linewise]]

\* ------------------------------------------------------ visual.rs closures
\* visual_motion's closure with the two compensations exchanged.
visual_motion_sel_swapped(d, flag, s, target, goal) ==
    LET new_head == clip_at_line_end(d, target)
        was_reversed == s.reversed
        s1 == set_head(s, new_head, goal)
    IN  IF was_reversed /\ ~s1.reversed
        THEN [s1 EXCEPT !.start =
                clip_point(d, flag, <<row(s1.start), column(s1.start) + 1>>, "Right")]
        ELSE IF ~was_reversed /\ s1.reversed
        THEN [s1 EXCEPT !.end =
                clip_point(d, flag,
                           <<row(s1.end), saturating_sub(column(s1.end), 1)>>,
                           "Left")]
        ELSE s1

\* visual_motion's closure; (target, goal) is what motion.move_point returned.
visual_motion_sel(d, flag, s, target, goal) ==
    LET new_head == clip_at_line_end(d, target)
        was_reversed == s.reversed
        s1 == set_head(s, new_head, goal)
    IN  IF was_reversed /\ ~s1.reversed
        THEN [s1 EXCEPT !.start =
                clip_point(d, flag,
                           <<row(s1.start), saturating_sub(column(s1.start), 1)>>,
                           "Left")]
        ELSE IF ~was_reversed /\ s1.reversed
        THEN [s1 EXCEPT !.end =
                clip_point(d, flag, <<row(s1.end), column(s1.end) + 1>>, "Right")]
        ELSE s1

\* change's adjuster without the clip of the extended end.
change_adjust_unclipped(d, flag, s) ==
    IF ~s.reversed
    THEN [s EXCEPT !.end = <<row(s.end), column(s.end) + 1>>]
    ELSE s

change_adjust(d, flag, s) ==
    IF ~s.reversed
    THEN [s EXCEPT !.end =
            clip_point(d, flag, <<row(s.end), column(s.end) + 1>>, "Left")]
    ELSE s

\* delete's adjuster clipping with change's bias.
delete_adjust_left(d, flag, s) ==
    IF ~s.reversed
    THEN [s EXCEPT !.end =
            clip_point(d, flag, <<row(s.end), column(s.end) + 1>>, "Left")]
    ELSE s

\* delete's adjuster extending the end whatever the direction.
delete_adjust_always(d, flag, s) ==
    [s EXCEPT !.end =
        clip_point(d, flag, <<row(s.end), column(s.end) + 1>>, "Right")]

delete_adjust(d, flag, s) ==
    IF ~s.reversed
    THEN [s EXCEPT !.end =
            clip_point(d, flag, <<row(s.end), column(s.end) + 1>>, "Right")]
    ELSE s

\* change_line's adjuster running the end over the line terminator.
change_line_adjust_over(d, s) ==
    [s EXCEPT !.start = prev_line_boundary(d, s.start),
              !.end = IF row(s.end) < row(max_point(d))
                      THEN <<row(s.end) + 1, 0>>
                      ELSE next_line_boundary(d, s.end)]

\* change_line's adjuster leaving the start where it was.
change_line_adjust_nostart(d, s) ==
    [s EXCEPT !.end = next_line_boundary(d, s.end)]

change_line_adjust(d, s) ==
    [s EXCEPT !.start = prev_line_boundary(d, s.start),
              !.end = next_line_boundary(d, s.end)]

\* delete_line's adjuster leaving the end alone after pulling the start back.
delete_line_adjust_noreset(d, s) ==
    LET s1 == [s EXCEPT !.start = prev_line_boundary(d, s.start)]
    IN  IF row(s1.end) < row(max_point(d))
        THEN [s1 EXCEPT !.end = <<row(s1.end) + 1, 0>>]
        ELSE IF row(s1.start) > 0
        THEN [s1 EXCEPT !.start =
                <<row(s1.start) - 1, line_len(d, row(s1.start) - 1)>>]
        ELSE [s1 EXCEPT !.end = next_line_boundary(d, s1.end)]

\* delete_line's adjuster without the early return: the end is reset too.
delete_line_adjust_fallthrough(d, s) ==
    LET s1 == [s EXCEPT !.start = prev_line_boundary(d, s.start)]
    IN  IF row(s1.end) < row(max_point(d))
        THEN [s1 EXCEPT !.end = next_line_boundary(d, <<row(s1.end) + 1, 0>>)]
        ELSE LET s2 == IF row(s1.start) > 0
                       THEN [s1 EXCEPT !.start =
                               <<row(s1.start) - 1,
                                 line_len(d, row(s1.start) - 1)>>]
                       ELSE s1
             IN  [s2 EXCEPT !.end = next_line_boundary(d, s2.end)]

delete_line_adjust(d, s) ==
    LET s1 == [s EXCEPT !.start = prev_line_boundary(d, s.start)]
    IN  IF row(s1.end) < row(max_point(d))
        THEN [s1 EXCEPT !.end = <<row(s1.end) + 1, 0>>]
        ELSE LET s2 == IF row(s1.start) > 0
                       THEN [s1 EXCEPT !.start =
                               <<row(s1.start) - 1,
                                 line_len(d, row(s1.start) - 1)>>]
                       ELSE s1
             IN  [s2 EXCEPT !.end = next_line_boundary(d, s2.end)]

\* delete with the cursor fix-up left out: the cursor stays as the
\* replacement left it.
delete_fixup_skipped(d, flag, s) == s

\* delete's cursor fix-up with line-end clipping left off.
delete_fixup_noclip(d, flag, s) ==
    collapse_to(s, clip_point(d, FALSE, head(s), "Left"), s.goal)

delete_fixup(d, flag, s) ==
    collapse_to(s, clip_point(d, flag, head(s), "Left"), s.goal)

\* delete_line's cursor fix-up without the column restoration.
delete_line_fixup_norestore(d, flag, cols, s) ==
    collapse_to(s, clip_point(d, flag, head(s), "Left"), s.goal)

\* delete_line's cursor fix-up sending a selection without a record to
\* column 0.
delete_line_fixup_zero(d, flag, cols, s) ==
    LET cursor == IF s.id \in DOMAIN cols
                  THEN <<row(head(s)), cols[s.id]>>
                  ELSE <<row(head(s)), 0>>
    IN  collapse_to(s, clip_point(d, flag, cursor, "Left"), s.goal)

delete_line_fixup(d, flag, cols, s) ==
    LET cursor == IF s.id \in DOMAIN cols
                  THEN <<row(head(s)), cols[s.id]>>
                  ELSE head(s)
    IN  collapse_to(s, clip_point(d, flag, cursor, "Left"), s.goal)

\* ------------------------------------------------- shape of the handlers
\* The mode each handler switches to once the editor update is over.
change_switch_mode == "Insert"
change_line_switch_mode == "Insert"
delete_switch_mode_insert == "Insert"
delete_switch_mode == "Normal"
delete_line_switch_mode == "Normal"

\* The linewise flag each handler passes to copy_selections_content.
change_copy_linewise == FALSE
change_line_copy_linewise == TRUE
delete_copy_linewise == FALSE
delete_line_copy_linewise_char == FALSE
delete_line_copy_linewise == TRUE

\* The statements of each handler, in the order they are written.
change_phases == <<"adjust", "copy", "replace", "mode">>
change_line_phases == <<"adjust", "copy", "replace", "mode">>
delete_phases == <<"adjust", "copy", "replace", "fixup", "mode">>
delete_line_phases == <<"adjust", "copy", "replace", "fixup", "mode">>

Event(kind, id) == [kind |-> kind, id |-> id]

\* move_with runs its closure on one selection after the other.
RECURSIVE adjust_events(_)
adjust_events(sels) ==
    IF sels = <<>> THEN <<>>
    ELSE <<Event("mutate", Head(sels).id)>> \o adjust_events(Tail(sels))

\* delete_line's closure with the recording after the expansion.
RECURSIVE delete_line_events_late(_)
delete_line_events_late(sels) ==
    IF sels = <<>> THEN <<>>
    ELSE <<Event("mutate", Head(sels).id), Event("record", Head(sels).id)>>
         \o delete_line_events_late(Tail(sels))

\* delete_line's closure records the head column of a selection, then
\* expands that selection, then goes on to the next selection.
RECURSIVE delete_line_events(_)
delete_line_events(sels) ==
    IF sels = <<>> THEN <<>>
    ELSE <<Event("record", Head(sels).id), Event("mutate", Head(sels).id)>>
         \o delete_line_events(Tail(sels))

\* original_columns as the closure builds it: a "record" step reads the head
\* column of the selection as it is at that moment, a "mutate" step expands
\* the selection.
RECURSIVE replay_columns(_, _, _, _)
replay_columns(evs, cur, d, cols) ==
    IF evs = <<>> THEN cols
    ELSE LET e == Head(evs)
         IN  IF e.kind = "record"
             THEN replay_columns(Tail(evs), cur, d,
                                 cols @@ (e.id :> column(head(cur[e.id]))))
             ELSE replay_columns(Tail(evs),
                                 [cur EXCEPT ![e.id] = delete_line_adjust(d, cur[e.id])],
                                 d, cols)

delete_line_columns(d, sels) ==
    replay_columns(delete_line_events(sels),
                   [id \in { sels[i].id : i \in 1..Len(sels) } |->
                       CHOOSE x \in { sels[i] : i \in 1..Len(sels) } : x.id = id],
                   d, <<>>)

\* ---------------------------------------------------------------- machine
NoSel == <<>>

\* Visual or visual-line mode has just been entered from normal mode: every
\* cursor is an empty forward selection resting on a character.
Init ==
    /\ doc \in Docs
    /\ mode \in {"Visual", "VisualLine"}
    /\ clip_at_line_ends = FALSE
    /\ \E n \in 1..MaxSel :
         \E ps \in [1..n -> { clip_at_line_end(doc, p) : p \in ValidPoints(doc) }] :
            /\ \A i \in 1..(n - 1) : PointLT(ps[i], ps[i + 1])
            /\ selections = [i \in 1..n |-> Cursor(i, ps[i])]
            /\ anchors = ps
    /\ op = "none"
    /\ doc0 = <<>>
    /\ sel0 = NoSel
    /\ adjusted = NoSel
    /\ ranges = NoSel
    /\ original_columns = <<>>
    /\ clipboard = <<>>
    /\ phases = <<>>
    /\ events = <<>>
    /\ motion_goal = <<>>
    /\ moved = NoSel

InVisual == mode \in {"Visual", "VisualLine"}

UnchangedHistory ==
    UNCHANGED <<op, doc0, sel0, adjusted, ranges, original_columns,
                clipboard, phases, events, anchors>>

\* visual_motion: one motion, applied to every selection.  The motion engine
\* is opaque: move_point is called once per selection and may send each head
\* to any valid point and hand back any goal for it.
VisualMotion ==
    /\ InVisual
    /\ \E target \in [1..Len(selections) -> ValidPoints(doc)],
          goal \in [1..Len(selections) -> Goals] :
         LET out == [i \in 1..Len(selections) |->
                       visual_motion_sel(doc, clip_at_line_ends, selections[i],
                                         target[i], goal[i])]
         IN  /\ moved' = out
             /\ selections' = select(out)
             /\ motion_goal' = goal
    /\ UNCHANGED <<doc, mode, clip_at_line_ends>>
    /\ UnchangedHistory

\* change (VisualChange)
Change ==
    /\ mode = "Visual"
    /\ LET adj == [i \in 1..Len(selections) |->
                     change_adjust(doc, FALSE, selections[i])]
           rs == select(adj)
       IN  /\ adjusted' = adj
           /\ ranges' = rs
           /\ clipboard' = copy_selections_content(doc, rs, change_copy_linewise)
           /\ doc' = insert_doc(doc, rs)
           /\ selections' = insert_selections(rs)
    /\ mode' = change_switch_mode
    /\ clip_at_line_ends' = FALSE
    /\ op' = "change"
    /\ doc0' = doc
    /\ sel0' = selections
    /\ original_columns' = <<>>
    /\ phases' = change_phases
    /\ events' = adjust_events(selections)
    /\ moved' = NoSel
    /\ UNCHANGED <<anchors, motion_goal>>

\* change_line (VisualLineChange)
ChangeLine ==
    /\ mode = "VisualLine"
    /\ LET adj == [i \in 1..Len(selections) |->
                     change_line_adjust(doc, selections[i])]
           rs == select(adj)
       IN  /\ adjusted' = adj
           /\ ranges' = rs
           /\ clipboard' = copy_selections_content(doc, rs,
                                                    change_line_copy_linewise)
           /\ doc' = insert_doc(doc, rs)
           /\ selections' = insert_selections(rs)
    /\ mode' = change_line_switch_mode
    /\ clip_at_line_ends' = FALSE
    /\ op' = "change_line"
    /\ doc0' = doc
    /\ sel0' = selections
    /\ original_columns' = <<>>
    /\ phases' = change_line_phases
    /\ events' = adjust_events(selections)
    /\ moved' = NoSel
    /\ UNCHANGED <<anchors, motion_goal>>

\* delete (VisualDelete)
Delete ==
    /\ mode = "Visual"
    /\ LET adj == [i \in 1..Len(selections) |->
                     delete_adjust(doc, FALSE, selections[i])]
           rs == select(adj)
           d1 == insert_doc(doc, rs)
           cs == insert_selections(rs)
       IN  /\ adjusted' = adj
           /\ ranges' = rs
           /\ clipboard' = copy_selections_content(doc, rs, delete_copy_linewise)
           /\ doc' = d1
           /\ selections' = select([i \in 1..Len(cs) |->
                                        delete_fixup(d1, TRUE, cs[i])])
    /\ mode' = delete_switch_mode
    /\ clip_at_line_ends' = TRUE
    /\ op' = "delete"
    /\ doc0' = doc
    /\ sel0' = selections
    /\ original_columns' = <<>>
    /\ phases' = delete_phases
    /\ events' = adjust_events(selections)
    /\ moved' = NoSel
    /\ UNCHANGED <<anchors, motion_goal>>

\* delete_line (VisualLineDelete)
DeleteLine ==
    /\ mode = "VisualLine"
    /\ LET cols == delete_line_columns(doc, selections)
           adj == [i \in 1..Len(selections) |->
                     delete_line_adjust(doc, selections[i])]
           rs == select(adj)
           d1 == insert_doc(doc, rs)
           cs == insert_selections(rs)
       IN  /\ original_columns' = cols
           /\ adjusted' = adj
           /\ ranges' = rs
           /\ clipboard' = copy_selections_content(doc, rs,
                                                    delete_line_copy_linewise)
           /\ doc' = d1
           /\ selections' = select([i \in 1..Len(cs) |->
                                        delete_line_fixup(d1, TRUE, cols, cs[i])])
    /\ mode' = delete_line_switch_mode
    /\ clip_at_line_ends' = TRUE
    /\ op' = "delete_line"
    /\ doc0' = doc
    /\ sel0' = selections
    /\ phases' = delete_line_phases
    /\ events' = delete_line_events(selections)
    /\ moved' = NoSel
    /\ UNCHANGED <<anchors, motion_goal>>

Next == VisualMotion \/ Change \/ ChangeLine \/ Delete \/ DeleteLine

Spec == Init /\ [][Next]_vars

\* ------------------------------------------ the fix-up closure on its own
\* delete_line's second move_with (lines 149-158) started on any cursors and
\* any side table, also one that lacks some of the cursors' ids.
InitFixup ==
    /\ doc \in Docs
    /\ mode = "VisualLine"
    /\ clip_at_line_ends = TRUE
    /\ \E n \in 1..MaxSel :
         \E ps \in [1..n -> ValidPoints(doc)] :
            /\ \A i \in 1..(n - 1) : PointLT(ps[i], ps[i + 1])
            /\ selections = [i \in 1..n |-> Cursor(i, ps[i])]
            /\ anchors = ps
            /\ \E ids \in SUBSET (1..n) :
                  original_columns \in [ids -> 0..MaxColumn]
    /\ op = "fixup_pending"
    /\ doc0 = doc
    /\ sel0 = NoSel
    /\ adjusted = NoSel
    /\ ranges = NoSel
    /\ clipboard = <<>>
    /\ phases = <<>>
    /\ events = <<>>
    /\ motion_goal = <<>>
    /\ moved = NoSel

FixupStep ==
    /\ op = "fixup_pending"
    /\ LET fixed == [i \in 1..Len(selections) |->
                       delete_line_fixup(doc, clip_at_line_ends,
                                         original_columns, selections[i])]
       IN  /\ adjusted' = fixed
           /\ selections' = select(fixed)
    /\ sel0' = selections
    /\ op' = "fixup_done"
    /\ UNCHANGED <<doc, mode, clip_at_line_ends, doc0, ranges,
                   original_columns, clipboard, phases, events, anchors,
                   motion_goal, moved>>

NextFixup == FixupStep

SpecFixup == InitFixup /\ [][NextFixup]_vars

\* ------------------------------------------------------------- properties
SelSet == { selections[i] : i \in 1..Len(selections) }

TypeOK ==
    /\ \A s \in SelSet : s.start \in ValidPoints(doc) /\ s.end \in ValidPoints(doc)
    /\ mode \in {"Visual", "VisualLine", "Normal", "Insert"}

\* ---------------------------------------------------- reference semantics
\* The buffer as one sequence of items, each a character or a line
\* terminator, tagged with the point it starts at.
RowItems(d, r) ==
    LET line == d[r + 1]
    IN  [k \in 1..Len(line) |->
            [ch |-> line[k], pos |-> <<r, CharEnd(line, k - 1)>>]]
        \o (IF r < Len(d) - 1
            THEN << [ch |-> NL, pos |-> <<r, SumW(line)>>] >>
            ELSE <<>>)

RECURSIVE FlatFrom(_, _)
FlatFrom(d, r) ==
    IF r > Len(d) - 1 THEN <<>> ELSE RowItems(d, r) \o FlatFrom(d, r + 1)

Flat(d) == FlatFrom(d, 0)

\* Lines of an item sequence: a terminator closes the line being built.
RECURSIVE Unflat(_, _)
Unflat(items, cur) ==
    IF items = <<>> THEN <<cur>>
    ELSE IF Head(items).ch = NL THEN <<cur>> \o Unflat(Tail(items), <<>>)
    ELSE Unflat(Tail(items), Append(cur, Head(items).ch))

\* Item it lies in the half-open range [s, e).
InRange(it, s, e) == PointLE(s, it.pos) /\ PointLT(it.pos, e)

\* Item it is selected by s as the user sees the selection: a forward
\* selection includes the character under its head.
Covers(s, it) ==
    \/ InRange(it, s.start, s.end)
    \/ ~s.reversed /\ it.ch # NL /\ it.pos = s.end

KeepItems(d, Gone(_)) ==
    LET Kept(it) == ~Gone(it) IN Unflat(SelectSeq(Flat(d), Kept), <<>>)

Sel0Set == { sel0[i] : i \in 1..Len(sel0) }
LastRow(d) == Len(d) - 1
SelRows(ss) == UNION { row(x.start)..row(x.end) : x \in ss }

\* Lines of d whose row is kept, in order.
RECURSIVE KeepRows(_, _, _)
KeepRows(d, r, gone) ==
    IF r > Len(d) - 1 THEN <<>>
    ELSE (IF r \in gone THEN <<>> ELSE <<d[r + 1]>>) \o KeepRows(d, r + 1, gone)

CharCount(d) == Len(SelectSeq(Flat(d), LAMBDA it : it.ch # NL))
CharsOf(d) == { Flat(d)[k].ch : k \in 1..Len(Flat(d)) } \ {NL}

\* ------------------------------------------------------------------ claims

\* C1: after every motion and every commit operation each selection has
\* start <= end, and so has each selection as its adjuster left it.
C1_StartLeEnd ==
    /\ \A s \in SelSet : PointLE(s.start, s.end)
    /\ \A i \in 1..Len(adjusted) : PointLE(adjusted[i].start, adjusted[i].end)
    /\ \A i \in 1..Len(ranges) : PointLE(ranges[i].start, ranges[i].end)

\* A linewise delete took the merge-backward branch: the start moved up a row.
C1_Witness ==
    /\ op = "delete_line"
    /\ \E i \in 1..Len(sel0) : row(adjusted[i].start) < row(sel0[i].start)

\* C2 as stated: reversed is true exactly when head equals start.
C2_ReversedIffHeadAtStart ==
    \A s \in SelSet : s.reversed = (head(s) = s.start)

\* C2 amended: reversed is true exactly when head equals start and the
\* selection is not empty; an empty selection is forward although its head
\* equals its start.
C2_ReversedIffHeadAtStartNonEmpty ==
    /\ \A s \in SelSet : s.reversed = (head(s) = s.start /\ s.start # s.end)
    /\ \A i \in 1..Len(adjusted) :
          adjusted[i].reversed =
             (head(adjusted[i]) = adjusted[i].start
              /\ adjusted[i].start # adjusted[i].end)

\* A motion has turned a selection backwards.
C2_Witness ==
    /\ op = "none"
    /\ \E s \in SelSet : s.reversed /\ head(s) = s.start

\* C3: characterwise delete removes, for a forward selection, the text from
\* its start up to and including the character under its head and nothing
\* else; the adjusted range is [start, clip_point(end + 1 column, Right));
\* a forward selection spanning one character loses exactly that character.
C3_DeleteForward ==
    op = "delete" =>
       /\ \A i \in 1..Len(sel0) :
             ~sel0[i].reversed =>
                /\ adjusted[i].start = sel0[i].start
                /\ adjusted[i].end =
                      text_clip_point(doc0, <<row(sel0[i].end),
                                              column(sel0[i].end) + 1>>, "Right")
       /\ LET Gone(it) == \E s \in Sel0Set : Covers(s, it)
          IN  doc = KeepItems(doc0, Gone)
       /\ (/\ Len(sel0) = 1
           /\ ~sel0[1].reversed
           /\ sel0[1].start = sel0[1].end
           /\ doc0[row(sel0[1].end) + 1] # <<>>)
          => /\ CharCount(doc) = CharCount(doc0) - 1
             /\ Len(doc) = Len(doc0)

\* A forward selection of several characters, ending on a wide character,
\* has been deleted.
C3_Witness ==
    /\ op = "delete"
    /\ \E i \in 1..Len(sel0) :
          /\ ~sel0[i].reversed
          /\ PointLT(sel0[i].start, sel0[i].end)
          /\ column(adjusted[i].end) = column(sel0[i].end) + 2

\* C4: after delete and delete_line every selection is a single cursor that
\* does not rest past the last character of its line in the edited buffer.
C4_CursorInsideLine ==
    op \in {"delete", "delete_line"} =>
       \A s \in SelSet :
          /\ clip_at_line_ends
          /\ s.start = s.end
          /\ head(s) = s.start
          /\ column(head(s)) <=
                (IF line_len(doc, row(head(s))) = 0 THEN 0
                 ELSE line_len(doc, row(head(s))) - 1)

\* A delete removed the tail of a line, so that the edit left the cursor on
\* the line's end and the fix-up moved it back.
C4_Witness ==
    /\ op = "delete"
    /\ Len(ranges) = 1
    /\ column(ranges[1].start) > 0
    /\ column(ranges[1].start) = line_len(doc, row(ranges[1].start))
    /\ PointLT(selections[1].start, ranges[1].start)

\* C5: for a reversed selection the adjusters of delete and change leave
\* start and end alone, and what leaves the buffer is the stored range
\* [start, end).
C5_ReversedUntouched ==
    op \in {"delete", "change"} =>
       /\ \A i \in 1..Len(sel0) :
             sel0[i].reversed =>
                /\ adjusted[i].start = sel0[i].start
                /\ adjusted[i].end = sel0[i].end
       /\ (\A s \in Sel0Set : s.reversed) =>
             LET Gone(it) == \E s \in Sel0Set : InRange(it, s.start, s.end)
             IN  doc = KeepItems(doc0, Gone)

\* A reversed selection was deleted or changed.
C5_Witness ==
    /\ op \in {"delete", "change"}
    /\ \A s \in Sel0Set : s.reversed
    /\ doc # doc0

\* C6: for a forward selection, change's range [start, clip(end + 1, Left))
\* ends on existing content, lies inside the range delete would remove, and
\* equals it when (end.row, end.column + 1) is a valid position.
C6_ChangeWithinDelete ==
    op = "change" =>
       /\ \A i \in 1..Len(sel0) :
             ~sel0[i].reversed =>
                LET raw == <<row(sel0[i].end), column(sel0[i].end) + 1>>
                    del == delete_adjust(doc0, FALSE, sel0[i])
                IN  /\ adjusted[i].start = sel0[i].start
                    /\ adjusted[i].end \in ValidPoints(doc0)
                    /\ PointLE(adjusted[i].end, del.end)
                    /\ raw \in ValidPoints(doc0) =>
                          adjusted[i].end = raw /\ del.end = raw
       /\ LET del == select([i \in 1..Len(sel0) |->
                               delete_adjust(doc0, FALSE, sel0[i])])
          IN  CharsOf(insert_doc(doc0, del)) \subseteq CharsOf(doc)

\* A change of a forward selection whose head is on a wide character: the
\* range of change is strictly inside the range of delete.
C6_Witness ==
    /\ op = "change"
    /\ \E i \in 1..Len(sel0) :
          /\ ~sel0[i].reversed
          /\ PointLT(adjusted[i].end,
                     delete_adjust(doc0, FALSE, sel0[i]).end)

\* C7: a linewise delete whose selections all end before the last row
\* removes [(start.row, 0), (end.row + 1, 0)) for each: the selected rows
\* go, the rows after them move up, every other row is unchanged.
C7_LineDeleteForward ==
    (op = "delete_line" /\ \A s \in Sel0Set : row(s.end) < LastRow(doc0)) =>
       /\ \A i \in 1..Len(sel0) :
             /\ adjusted[i].start = <<row(sel0[i].start), 0>>
             /\ adjusted[i].end = <<row(sel0[i].end) + 1, 0>>
       /\ doc = KeepRows(doc0, 0, SelRows(Sel0Set))

\* A middle row has been deleted.
C7_Witness ==
    /\ op = "delete_line"
    /\ \A s \in Sel0Set : row(s.end) < LastRow(doc0)
    /\ \E s \in Sel0Set : row(s.start) > 0

\* C8: a linewise delete covering the last line of a multi-line document,
\* with some row left outside the selections, consumes the terminator of the
\* line before the deleted rows: the document keeps exactly the rows outside
\* the selections, none of them partially, and gets no blank trailing line.
C8_LastLineRowsRemoved ==
    (/\ op = "delete_line"
     /\ Len(doc0) > 1
     /\ \E s \in Sel0Set : row(s.end) = LastRow(doc0)
     /\ SelRows(Sel0Set) # 0..LastRow(doc0)) =>
       doc = KeepRows(doc0, 0, SelRows(Sel0Set))

\* C8 for one selection: the start is pulled back to the end of the
\* preceding line and the selected rows are what the document loses.
C8_SingleSelection ==
    (/\ op = "delete_line"
     /\ Len(sel0) = 1
     /\ row(sel0[1].end) = LastRow(doc0)
     /\ row(sel0[1].start) > 0) =>
       /\ adjusted[1].start =
             <<row(sel0[1].start) - 1, line_len(doc0, row(sel0[1].start) - 1)>>
       /\ doc = KeepRows(doc0, 0, SelRows(Sel0Set))

\* The column a cursor takes when column c is clipped with bias Left on a
\* line while line-end clipping is on.
RestCol(line, c) ==
    IF line = <<>> THEN 0
    ELSE Max({ b \in Boundaries(line) : b <= c /\ b < SumW(line) })

\* C9: after a linewise delete each cursor stands at the column its
\* selection's head had before the operation, clipped with bias Left, on the
\* row that took the deleted rows' place.
C9_ColumnRestored ==
    op = "delete_line" =>
       /\ \A s \in SelSet :
             \E o \in Sel0Set :
                /\ o.id = s.id
                /\ s.start = s.end
                /\ column(s.start) =
                      RestCol(doc[row(s.start) + 1], column(head(o)))
       /\ Len(sel0) = 1 =>
             /\ Len(selections) = 1
             /\ row(selections[1].start) =
                   IF row(sel0[1].start) <= LastRow(doc)
                   THEN row(sel0[1].start) ELSE LastRow(doc)

\* A cursor went back to the positive column its head had.
C9_Witness ==
    /\ op = "delete_line"
    /\ \E s \in SelSet : \E o \in Sel0Set :
          /\ o.id = s.id
          /\ column(head(o)) > 0
          /\ column(s.start) = column(head(o))
          /\ row(o.end) < LastRow(doc0)

\* Rows of d with every run of selected rows replaced by one empty line.
RECURSIVE BlankRows(_, _, _)
BlankRows(d, r, ss) ==
    IF r > Len(d) - 1 THEN <<>>
    ELSE (IF \A x \in ss : ~(row(x.start) <= r /\ r <= row(x.end))
          THEN <<d[r + 1]>>
          ELSE IF \E x \in ss : row(x.start) < r /\ r <= row(x.end)
          THEN <<>>
          ELSE << <<>> >>)
         \o BlankRows(d, r + 1, ss)

\* C10: linewise change removes the text from the start of the first
\* selected row to the end of the last one, replaces the selected rows by
\* one empty line, consumes no terminator outside the selection, leaves the
\* cursor at column 0 of that empty line and ends in Insert mode.
C10_ChangeLine ==
    op = "change_line" =>
       /\ mode = "Insert"
       /\ \A i \in 1..Len(sel0) :
             /\ adjusted[i].start = <<row(sel0[i].start), 0>>
             /\ adjusted[i].end =
                   <<row(sel0[i].end), line_len(doc0, row(sel0[i].end))>>
       /\ doc = BlankRows(doc0, 0, Sel0Set)
       /\ Len(sel0) = 1 =>
             Len(doc) = Len(doc0) - (row(sel0[1].end) - row(sel0[1].start))
       /\ \A s \in SelSet :
             /\ s.start = s.end
             /\ column(s.start) = 0
             /\ doc[row(s.start) + 1] = <<>>

\* Two rows that are not the last ones have been changed.
C10_Witness ==
    /\ op = "change_line"
    /\ Len(sel0) = 1
    /\ row(sel0[1].end) = row(sel0[1].start) + 1
    /\ row(sel0[1].end) < LastRow(doc0)
    /\ Len(doc) = Len(doc0) - 1

\* C11 as stated: a linewise change remembers, for every selection, the
\* column its head had.
C11_ColumnRemembered ==
    op = "change_line" =>
       \A o \in Sel0Set :
          /\ o.id \in DOMAIN original_columns
          /\ original_columns[o.id] = column(head(o))

\* C11 amended: a linewise change remembers no column; whatever column the
\* head had, the cursor ends at column 0 of the empty line that replaces
\* the changed rows, which is that column clipped to the line's length.
C11_NoColumnRemembered ==
    op = "change_line" =>
       /\ original_columns = <<>>
       /\ \A s \in SelSet :
             \E o \in Sel0Set :
                /\ o.id = s.id
                /\ line_len(doc, row(head(s))) = 0
                /\ column(head(s)) = 0
                /\ column(head(s)) =
                      (IF column(head(o)) < line_len(doc, row(head(s)))
                       THEN column(head(o))
                       ELSE line_len(doc, row(head(s))))

\* A line was changed while the head stood at a positive column.
C11_Witness ==
    /\ op = "change_line"
    /\ \E o \in Sel0Set : column(head(o)) > 0 /\ column(o.start) > 0

\* Place of a phase in a phase list, 0 when it is absent.
PhaseAt(ph, name) ==
    IF \E i \in 1..Len(ph) : ph[i] = name
    THEN Min({ i \in 1..Len(ph) : ph[i] = name })
    ELSE 0

\* C12: a motion leaves the mode as it is; delete and delete_line end in
\* Normal mode, change and change_line in Insert mode; the mode is switched
\* after the text was replaced; nothing runs after a commit.
C12_ModeTransitions ==
    [][/\ op = "none"
       /\ op' = "none" => mode' = mode /\ mode' \in {"Visual", "VisualLine"}
       /\ op' \in {"delete", "delete_line"} => mode' = "Normal"
       /\ op' \in {"change", "change_line"} => mode' = "Insert"
       /\ op' # "none" =>
             /\ PhaseAt(phases', "replace") > 0
             /\ PhaseAt(phases', "replace") < PhaseAt(phases', "mode")
             /\ PhaseAt(phases', "mode") = Len(phases')]_vars

\* A delete was committed after a motion had extended the selection.
C12_Witness ==
    /\ op = "delete"
    /\ mode = "Normal"
    /\ \E o \in Sel0Set : PointLT(o.start, o.end)

ItemChars(items) == [k \in 1..Len(items) |-> items[k].ch]

\* Number of buffer items before a point.
Offset(d, p) ==
    Cardinality({ k \in 1..Len(Flat(d)) : PointLT(Flat(d)[k].pos, p) })

\* The head of s rests on a character of its line (column 0 on an empty line).
HeadInside(d, s) ==
    column(head(s)) <= Max({0, line_len(d, row(head(s))) - 1})

\* Number of items of the old buffer in the i-th removed range, and in the
\* ranges before it.
RangeItems(i) ==
    Cardinality({ k \in 1..Len(Flat(doc0)) :
                    InRange(Flat(doc0)[k], ranges[i].start, ranges[i].end) })

RECURSIVE RemovedBefore(_)
RemovedBefore(i) ==
    IF i = 1 THEN 0 ELSE RemovedBefore(i - 1) + RangeItems(i - 1)

\* The point of the new buffer where the i-th range was taken out.
EditPoint(i) ==
    CHOOSE p \in ValidPoints(doc) :
       Offset(doc, p) = Offset(doc0, ranges[i].start) - RemovedBefore(i)

\* The copy read the adjusted ranges in the buffer as it was before the
\* replacement, and the replacement took out exactly the adjusted ranges.
AdjustCopyReplace ==
    /\ Len(clipboard) = Len(ranges)
    /\ \A i \in 1..Len(ranges) :
          LET In(it) == InRange(it, ranges[i].start, ranges[i].end)
          IN  clipboard[i].text = ItemChars(SelectSeq(Flat(doc0), In))
    /\ LET Kept(it) == \A i \in 1..Len(ranges) :
                          ~InRange(it, ranges[i].start, ranges[i].end)
       IN  ItemChars(Flat(doc)) = ItemChars(SelectSeq(Flat(doc0), Kept))

\* C13 as stated: each of the four commit operations adjusts, copies,
\* replaces, fixes up the cursor and switches the mode, in that order; the
\* fix-up runs after the replacement with line-end clipping on, so every
\* commit leaves its cursors collapsed on a character of the new buffer.
C13_FivePhases ==
    op # "none" =>
       /\ AdjustCopyReplace
       /\ clip_at_line_ends
       /\ \A s \in SelSet : s.start = s.end /\ HeadInside(doc, s)
       /\ mode \in {"Normal", "Insert"}

\* C13 amended: delete and delete_line adjust, copy, replace, fix up the
\* cursor and switch the mode: the cursor is the point where its range was
\* taken out, clipped in the new buffer with line-end clipping on.  change
\* and change_line adjust, copy, replace and switch the mode and have no
\* fix-up: each cursor is exactly the point where its range was taken out,
\* even on a line's end, and line-end clipping stays off.
C13_PhasesPerOperation ==
    op # "none" =>
       /\ AdjustCopyReplace
       /\ op \in {"delete", "delete_line"} =>
             /\ clip_at_line_ends
             /\ mode = "Normal"
             /\ \A s \in SelSet :
                   /\ s.start = s.end
                   /\ HeadInside(doc, s)
                   /\ \E i \in 1..Len(ranges) :
                         /\ s.id = ranges[i].id
                         /\ row(s.start) = row(EditPoint(i))
                         /\ op = "delete" =>
                               column(s.start) =
                                  RestCol(doc[row(s.start) + 1],
                                          column(EditPoint(i)))
             /\ \A i \in 1..Len(ranges) :
                   \E s \in SelSet : row(s.start) = row(EditPoint(i))
       /\ op \in {"change", "change_line"} =>
             /\ ~clip_at_line_ends
             /\ mode = "Insert"
             /\ Len(selections) = Len(ranges)
             /\ \A i \in 1..Len(ranges) :
                   /\ selections[i].id = ranges[i].id
                   /\ selections[i].start = EditPoint(i)
                   /\ selections[i].end = EditPoint(i)

\* A change left its cursor on the end of a non-empty line, where a fix-up
\* would not have left it.
C13_Witness ==
    /\ op = "change"
    /\ \E s \in SelSet :
          /\ line_len(doc, row(s.start)) > 0
          /\ column(s.start) = line_len(doc, row(s.start))

Splice(seq, off, text) ==
    SubSeq(seq, 1, off) \o text \o SubSeq(seq, off + 1, Len(seq))

\* The item sequence with the j first clipboard texts put back, last first.
RECURSIVE Paste(_, _, _, _)
Paste(seq, offs, clips, j) ==
    IF j = 0 THEN seq
    ELSE Paste(Splice(seq, offs[j], clips[j].text), offs, clips, j - 1)

\* C14: the clipboard holds, for each selection, the text of its adjusted
\* range in the buffer as it was before the replacement; putting the texts
\* back where the ranges were gives the old buffer; the entries are flagged
\* linewise exactly for delete_line and change_line.
C14_ClipboardIsRemovedText ==
    op # "none" =>
       /\ Len(clipboard) = Len(ranges)
       /\ PhaseAt(phases, "adjust") < PhaseAt(phases, "copy")
       /\ PhaseAt(phases, "copy") < PhaseAt(phases, "replace")
       /\ \A i \in 1..Len(ranges) :
             /\ clipboard[i].is_entire_line = (op \in {"delete_line", "change_line"})
             /\ LET In(it) == InRange(it, ranges[i].start, ranges[i].end)
                IN  clipboard[i].text = ItemChars(SelectSeq(Flat(doc0), In))
       /\ LET cs == insert_selections(ranges)
              offs == [i \in 1..Len(cs) |-> Offset(doc, cs[i].start)]
          IN  Paste(ItemChars(Flat(doc)), offs, clipboard, Len(clipboard))
                 = ItemChars(Flat(doc0))

\* Two ranges, each with text crossing a line terminator or not, were copied.
C14_Witness ==
    /\ op # "none"
    /\ Len(clipboard) = 2
    /\ \A i \in 1..2 : clipboard[i].text # <<>>
    /\ \E i \in 1..2 : \E k \in 1..Len(clipboard[i].text) :
          clipboard[i].text[k] = NL

\* C15 as stated: in a linewise delete every head column is recorded before
\* any selection is mutated.
C15_AllRecordedBeforeAnyMutation ==
    op = "delete_line" =>
       \A i, j \in 1..Len(events) :
          (events[i].kind = "mutate" /\ events[j].kind = "record") => j < i

\* C15 amended: the closure records a selection's head column and then
\* mutates that selection before it turns to the next one; each column is
\* recorded before its own selection is mutated, so the table holds the head
\* columns the selections had when the operation began.
C15_RecordedBeforeOwnMutation ==
    op = "delete_line" =>
       /\ Len(events) = 2 * Len(sel0)
       /\ \A k \in 1..Len(sel0) :
             /\ events[2 * k - 1] = Event("record", sel0[k].id)
             /\ events[2 * k] = Event("mutate", sel0[k].id)
       /\ DOMAIN original_columns = { o.id : o \in Sel0Set }
       /\ \A o \in Sel0Set : original_columns[o.id] = column(head(o))

\* Two selections, the first with its head at a positive column, went
\* through a linewise delete.
C15_Witness ==
    /\ op = "delete_line"
    /\ Len(sel0) = 2
    /\ column(head(sel0[1])) > 0
    /\ column(head(sel0[2])) > 0

\* C16: in the linewise fix-up a selection whose id has no recorded column
\* keeps its current head column, clipped with bias Left; the closure still
\* runs on every selection, and those with a record get their record.
C16_MissingRecordFallsBack ==
    op = "fixup_done" =>
       /\ Len(adjusted) = Len(sel0)
       /\ \A i \in 1..Len(sel0) :
             LET o == sel0[i]
                 want == IF o.id \in DOMAIN original_columns
                         THEN original_columns[o.id]
                         ELSE column(head(o))
             IN  /\ adjusted[i].id = o.id
                 /\ adjusted[i].start = adjusted[i].end
                 /\ ~adjusted[i].reversed
                 /\ row(adjusted[i].start) = row(head(o))
                 /\ column(adjusted[i].start) = RestCol(doc[row(head(o)) + 1], want)

\* A selection without a record kept its positive column while another
\* selection took a recorded column different from its own.
C16_Witness ==
    /\ op = "fixup_done"
    /\ \E i, j \in 1..Len(sel0) :
          /\ sel0[i].id \notin DOMAIN original_columns
          /\ column(head(sel0[i])) > 0
          /\ adjusted[i].start = head(sel0[i])
          /\ sel0[j].id \in DOMAIN original_columns
          /\ column(adjusted[j].start) # column(head(sel0[j]))

\* The goal move_point returned for selection s in the last motion; before
\* any motion a cursor has no goal.
ReturnedGoal(s) ==
    IF moved = NoSel THEN "None"
    ELSE motion_goal[CHOOSE i \in 1..Len(moved) : moved[i].id = s.id]

\* C17 as stated: after every motion each selection of the editor has its
\* head on a character of its line and carries the goal the motion returned
\* for it.
C17_HeadNeverAtLineEnd ==
    op = "none" =>
       \A s \in SelSet : HeadInside(doc, s) /\ s.goal = ReturnedGoal(s)

\* What visual_motion's closure itself leaves: every selection comes out of
\* it with its head on a character of the line and with the goal returned
\* for it; the head passes the last character only in the merge that
\* follows.
C17_ClosureClipsHead ==
    op = "none" =>
       \A i \in 1..Len(moved) :
          HeadInside(doc, moved[i]) /\ moved[i].goal = motion_goal[i]

\* The nearest character boundary of a line at or before column c, and the
\* nearest at or after it (the line's end for a column past it).
LeftCol(line, c) == Max({ b \in Boundaries(line) : b <= c })
RightCol(line, c) ==
    IF c >= SumW(line) THEN SumW(line)
    ELSE Min({ b \in Boundaries(line) : b >= c })

\* C18: a motion that turns a reversed selection forward puts its start one
\* column before the old end (not below 0), on the boundary at or before
\* it; one that turns a forward selection backwards puts its end one column
\* after the old start, on the boundary at or after it; a motion that keeps
\* the direction leaves the boundary opposite the head as it was.
C18_BoundaryRepair ==
    [][op' = "none" =>
         \A i \in 1..Len(selections) :
            LET o == selections[i]
                n == moved'[i]
            IN  /\ n.id = o.id
                /\ (o.reversed /\ ~n.reversed) =>
                      /\ row(n.start) = row(o.end)
                      /\ column(n.start) >= 0
                      /\ column(n.start) =
                            LeftCol(doc[row(o.end) + 1],
                                    IF column(o.end) = 0 THEN 0
                                    ELSE column(o.end) - 1)
                /\ (~o.reversed /\ n.reversed) =>
                      /\ row(n.end) = row(o.start)
                      /\ column(n.end) =
                            RightCol(doc[row(o.start) + 1], column(o.start) + 1)
                /\ (o.reversed /\ n.reversed) => n.end = o.end
                /\ (~o.reversed /\ ~n.reversed) => n.start = o.start
    ]_vars

\* A motion turned the one cursor, standing on a character two columns wide,
\* backwards: the end went over the whole character, two columns past the
\* position the cursor had.
C18_Witness ==
    /\ op = "none"
    /\ Len(anchors) = 1
    /\ Len(moved) = 1
    /\ moved[1].reversed
    /\ row(moved[1].end) = row(anchors[1])
    /\ column(moved[1].end) = column(anchors[1]) + 2

FlatSet(d) == { Flat(d)[i] : i \in 1..Len(Flat(d)) }

\* Item it is in the stored range of s or under its head.
Stored(s, it) == InRange(it, s.start, s.end) \/ it.pos = head(s)

\* Item it starts between the points p and h, both included.
Span(p, h, it) ==
    LET lo == IF PointLT(p, h) THEN p ELSE h
        hi == IF PointLT(p, h) THEN h ELSE p
    IN  PointLE(lo, it.pos) /\ PointLE(it.pos, hi)

\* C19 as stated: after any sequence of motions on one cursor that entered
\* visual mode at p, the items in [start, end) or under the head are exactly
\* those from p to the head, both included, so the item at p is always
\* covered.
C19_ExactlyInclusiveSpan ==
    (op = "none" /\ Len(anchors) = 1) =>
       LET s == selections[1]
           a == anchors[1]
       IN  /\ \A it \in FlatSet(doc) : Stored(s, it) = Span(a, head(s), it)
           /\ \A it \in FlatSet(doc) : it.pos = a => Stored(s, it)

\* C19 amended: the items in [start, end) or under the head are those from
\* p to the head, both included, except that under a reversed selection
\* with p on an empty line the terminator at p is left out (the range ends
\* at p); wherever p stands on a character that character is covered.  A
\* forward selection has its tail at p and a reversed one has its end just
\* after the character at p, at p itself on an empty line, so the tail does
\* not drift however often the direction flips.
C19_TailDoesNotDrift ==
    (op = "none" /\ Len(anchors) = 1) =>
       LET s == selections[1]
           a == anchors[1]
           LeftOut(it) == s.reversed /\ it.ch = NL /\ it.pos = a
       IN  /\ Len(selections) = 1
           /\ \A it \in FlatSet(doc) :
                 Stored(s, it) = (Span(a, head(s), it) /\ ~LeftOut(it))
           /\ \A it \in FlatSet(doc) :
                 (it.pos = a /\ it.ch # NL) => Stored(s, it)
           /\ (s.reversed /\ line_len(doc, row(a)) = 0) => s.end = a
           /\ IF s.reversed
              THEN /\ row(s.end) = row(a)
                   /\ column(s.end) = RightCol(doc[row(a) + 1], column(a) + 1)
              ELSE s.start = a

\* One cursor entered visual mode at a positive column and a motion took
\* its head to an earlier row: the selection is reversed and still ends
\* just after the character the cursor was on.
C19_Witness ==
    /\ op = "none"
    /\ Len(anchors) = 1
    /\ column(anchors[1]) > 0
    /\ selections[1].reversed
    /\ row(head(selections[1])) < row(anchors[1])
    /\ selections[1].end = <<row(anchors[1]), column(anchors[1]) + 1>>

\* C20 as stated: the end is reset to its line's end only for a selection
\* starting on row 0 and ending on the last line; one ending on the last
\* line and starting lower gets its start moved and keeps its end.
C20_EndResetOnlyFromRowZero ==
    op = "delete_line" =>
       \A i \in 1..Len(sel0) :
          LET o == sel0[i]
              a == adjusted[i]
          IN  IF row(o.end) < LastRow(doc0)
              THEN a.end = <<row(o.end) + 1, 0>>
              ELSE IF row(o.start) > 0
              THEN /\ a.start = <<row(o.start) - 1,
                                  line_len(doc0, row(o.start) - 1)>>
                   /\ a.end = o.end
              ELSE a.end = <<row(o.end), line_len(doc0, row(o.end))>>

\* C20: in the linewise-delete expansion the end is reset to the end of its
\* line whenever it is on the document's last line, whether the start is on
\* row 0 (and stays at column 0) or lower (and is pulled back to the end of
\* the line before it); when the end is not on the last line it becomes
\* (end.row + 1, 0), is not reset, and the start stays at column 0 of its
\* row.
C20_EndResetOnLastLine ==
    op = "delete_line" =>
       \A i \in 1..Len(sel0) :
          LET o == sel0[i]
              a == adjusted[i]
          IN  IF row(o.end) < LastRow(doc0)
              THEN /\ a.end = <<row(o.end) + 1, 0>>
                   /\ a.start = <<row(o.start), 0>>
              ELSE /\ a.end = <<row(o.end), line_len(doc0, row(o.end))>>
                   /\ a.start = IF row(o.start) > 0
                                THEN <<row(o.start) - 1,
                                       line_len(doc0, row(o.start) - 1)>>
                                ELSE <<0, 0>>

\* A selection starting below row 0 and ending on the last line before its
\* line's end went through a linewise delete, and its end was moved to the
\* line's end.
C20_Witness ==
    /\ op = "delete_line"
    /\ \E i \in 1..Len(sel0) :
          /\ row(sel0[i].start) > 0
          /\ row(sel0[i].end) = LastRow(doc0)
          /\ column(sel0[i].end) < line_len(doc0, row(sel0[i].end))
          /\ adjusted[i].end # sel0[i].end
          /\ adjusted[i].end = <<LastRow(doc0), line_len(doc0, LastRow(doc0))>>

====
